---- MODULE Spec2Model ----
(***************************************************************************)
(* optiland: the coating interaction model (optiland/coatings.py) and the  *)
(* pupil sampling distributions exercised by tests/test_distribution.py.   *)
(*                                                                         *)
(* Real numbers are fixed point.  Intensities, transmittance and           *)
(* reflectance are multiples of 1/Unit; direction cosines and surface      *)
(* normals are multiples of 1/2, so a dot product is a multiple of 1/4.    *)
(***************************************************************************)
EXTENDS Integers, Sequences, FiniteSets, TLC

VARIABLES
    coating,    \* the coating object under test
    heap,       \* the ray collections, by identity
    registry,   \* BaseCoating._registry
    last,       \* the last operation on a coating: arguments, calls made, result
    nops,       \* the number of operations on rays so far
    hist,       \* the reflect and transmit calls each ray collection went through
    gq,         \* the GaussianQuadrature instance
    hexa,       \* the Hexapolar distribution instance
    cross,      \* the Cross distribution instance
    dlast       \* the last operation on a distribution

coatingVars == <<coating, heap, registry, last, nops, hist>>

distVars == <<gq, hexa, cross, dlast>>

vars == <<coating, heap, registry, last, nops, hist, gq, hexa, cross, dlast>>

(***************************************************************************)
(* Bounds of the model.                                                    *)
(***************************************************************************)
\* resolution of intensities, transmittance and reflectance: 1.0 is Unit
Unit == 100

\* number of operations on rays that one behaviour performs
MaxOps == 3

(***************************************************************************)
(* The numeric backend (optiland.backend), element-wise on per-ray arrays. *)
(***************************************************************************)
\* Python's None for an argument that is a per-ray array
None == <<>>

\* the object None, where an object (a record) may stand
NoneObj == [type |-> "NoneType"]

NaN == 0 - 1

\* a * b on values with resolution 1/Unit, rounded to nearest, ties to even
FMul(a, b) ==
    LET p == a * b
        q == p \div Unit
        r == p % Unit
    IN  IF 2 * r > Unit \/ (2 * r = Unit /\ q % 2 = 1) THEN q + 1 ELSE q

\* array * scalar
ScaleArray(arr, s) == [k \in DOMAIN arr |-> FMul(arr[k], s)]

Abs(v) == IF v < 0 THEN 0 - v ELSE v

\* be.clip(v, lo, hi)
Clip(v, lo, hi) == IF v < lo THEN lo ELSE IF v > hi THEN hi ELSE v

\* arccos on multiples of 1/4, in hundredths of a degree: entry v + 1 is arccos(v/4)
ArcCosTable == <<9000, 7552, 6000, 4141, 0>>

\* 1.0 in the resolution of a dot product
One == Len(ArcCosTable) - 1

\* be.arccos: undefined (nan) outside [-1, 1]
ArcCos(v) ==
    IF v > One \/ v < 0 - One THEN NaN
    ELSE IF v >= 0 THEN ArcCosTable[v + 1]
    ELSE 18000 - ArcCosTable[(0 - v) + 1]

(***************************************************************************)
(* The class registry, BaseCoating._registry.                              *)
(***************************************************************************)
\* the subclasses of BaseCoating, in the order their class statements run
Subclasses == <<"SimpleCoating", "BaseCoatingPolarized", "FresnelCoating">>

\* a faulty __init_subclass__, leaving the abstract intermediate class out
\* (C14 rules it out)
InitSubclassSkipsPolarizedBase(reg, cls) ==
    IF cls = "BaseCoatingPolarized" THEN reg
    ELSE [n \in DOMAIN reg \cup {cls} |-> IF n = cls THEN cls ELSE reg[n]]

\* BaseCoating.__init_subclass__: _registry[cls.__name__] = cls
InitSubclass(reg, cls) ==
    [n \in DOMAIN reg \cup {cls} |-> IF n = cls THEN cls ELSE reg[n]]

RECURSIVE RegisterAll(_, _)
RegisterAll(reg, classes) ==
    IF classes = <<>> THEN reg
    ELSE RegisterAll(InitSubclass(reg, Head(classes)), Tail(classes))

\* the registry once the module is imported
ImportedRegistry == RegisterAll([n \in {} |-> n], Subclasses)

(***************************************************************************)
(* Materials and the Jones calculator (external collaborators).            *)
(***************************************************************************)
Materials == {"air", "glass"}

\* BaseMaterial.to_dict / BaseMaterial.from_dict
MaterialToDict(m) == [type |-> "IdealMaterial", n |-> m]

MaterialFromDict(d) == d.n

\* JonesFresnel(material_pre, material_post)
JonesFresnel(pre, post) == [pre |-> pre, post |-> post]

\* JonesFresnel.calculate_matrix(rays, reflect, aoi): the matrix, as a term
CalculateMatrix(jones, r, reflect, aoi) ==
    [jones |-> jones, rays |-> r, reflect |-> reflect, aoi |-> aoi]

\* RealRays.update(jones): the matrix is applied to the polarization state
RaysUpdate(h, r, jones) == [h EXCEPT ![r].p = Append(@, jones)]

(***************************************************************************)
(* Coating objects.                                                        *)
(***************************************************************************)
\* SimpleCoating.__init__
SimpleCoating(transmittance, reflectance) ==
    [type |-> "SimpleCoating",
     transmittance |-> transmittance,
     reflectance |-> reflectance,
     absorptance |-> Unit - reflectance - transmittance]

\* FresnelCoating.__init__
FresnelCoating(material_pre, material_post) ==
    [type |-> "FresnelCoating",
     material_pre |-> material_pre,
     material_post |-> material_post,
     jones |-> JonesFresnel(material_pre, material_post)]

\* the values transmittance and reflectance are drawn from
Fractions == {0, 5, 90, Unit}

SimpleCoatings == {SimpleCoating(t, r) : t \in Fractions, r \in Fractions}

FresnelCoatings == {FresnelCoating("air", "glass"), FresnelCoating("glass", "air")}

Coatings == SimpleCoatings \cup FresnelCoatings

IsPolarized(self) == self.type = "FresnelCoating"

(***************************************************************************)
(* Ray collections (optiland.rays.RealRays).  The heap maps the identity   *)
(* of a collection to its per-ray arrays: intensity i, the incident        *)
(* direction cosines L0, M0, N0 and the Jones matrices applied so far, p.  *)
(***************************************************************************)
RayIds == {1, 2}

\* the intensities of the two collections before the first operation
InitialIntensity == <<(<<Unit, 40>>), (<<70, 0>>)>>

RealRays(i) == [i |-> i, L0 |-> <<0, 1>>, M0 |-> <<0, 1>>, N0 |-> <<2, 1>>, p |-> <<>>]

\* the surface normals a caller passes: all omitted, all given, or some given
NormalsGiven ==
    {[nx |-> <<0, 0>>, ny |-> <<0, 0>>, nz |-> <<2, 2>>],
     [nx |-> <<0, 2>>, ny |-> <<0, 2>>, nz |-> <<0 - 2, 2>>]}

NormalsOmitted ==
    {[nx |-> None, ny |-> None, nz |-> None],
     [nx |-> <<0, 0>>, ny |-> None, nz |-> None]}

\* the normals are required for the polarized variants: arithmetic on None
\* is a type error, and no caller omits them there
NormalArgs(self) ==
    IF IsPolarized(self) THEN NormalsGiven ELSE NormalsGiven \cup NormalsOmitted

(***************************************************************************)
(* BaseCoating._compute_aoi                                                *)
(***************************************************************************)
\* a faulty _compute_aoi, without the clip (C12 rules it out)
ComputeAoiUnclipped(h, r, nx, ny, nz) ==
    [k \in DOMAIN h[r].i |->
        LET dot == Abs(nx[k] * h[r].L0[k] + ny[k] * h[r].M0[k] + nz[k] * h[r].N0[k])
        IN  ArcCos(dot)]

ComputeAoi(h, r, nx, ny, nz) ==
    [k \in DOMAIN h[r].i |->
        LET dot == Abs(nx[k] * h[r].L0[k] + ny[k] * h[r].M0[k] + nz[k] * h[r].N0[k])
        IN  ArcCos(Clip(dot, 0 - One, One))]

(***************************************************************************)
(* reflect and transmit.  Each yields the coating and the heap after the   *)
(* call, the object returned and the calls made on the way, in order.      *)
(***************************************************************************)
\* a faulty SimpleCoating.reflect, scaling by the transmittance (C2 rules it out)
SimpleReflectByTransmittance(self, h, r, nx, ny, nz) ==
    [self |-> self,
     heap |-> [h EXCEPT ![r].i = ScaleArray(@, self.transmittance)],
     ret |-> r,
     trace |-> <<>>]

\* a faulty SimpleCoating.reflect, adding the reflected part to the intensity
\* (C15 rules it out)
SimpleReflectAmplifies(self, h, r, nx, ny, nz) ==
    [self |-> self,
     heap |-> [h EXCEPT ![r].i = ScaleArray(@, Unit + self.reflectance)],
     ret |-> r,
     trace |-> <<>>]

\* SimpleCoating.reflect
SimpleReflect(self, h, r, nx, ny, nz) ==
    [self |-> self,
     heap |-> [h EXCEPT ![r].i = ScaleArray(@, self.reflectance)],
     ret |-> r,
     trace |-> <<>>]

\* a faulty SimpleCoating.transmit, using its transmittance up (C13 rules it
\* out)
SimpleTransmitConsumes(self, h, r, nx, ny, nz) ==
    [self |-> [self EXCEPT !.transmittance = FMul(@, @)],
     heap |-> [h EXCEPT ![r].i = ScaleArray(@, self.transmittance)],
     ret |-> r,
     trace |-> <<>>]

\* SimpleCoating.transmit
SimpleTransmit(self, h, r, nx, ny, nz) ==
    [self |-> self,
     heap |-> [h EXCEPT ![r].i = ScaleArray(@, self.transmittance)],
     ret |-> r,
     trace |-> <<>>]

\* the three steps shared by BaseCoatingPolarized.reflect and .transmit
PolarizedSteps(self, h, r, nx, ny, nz, reflect) ==
    LET aoi == ComputeAoi(h, r, nx, ny, nz)
        jones == CalculateMatrix(self.jones, r, reflect, aoi)
    IN  [self |-> self,
         heap |-> RaysUpdate(h, r, jones),
         ret |-> r,
         trace |-> <<[fn |-> "_compute_aoi", rays |-> r, nx |-> nx, ny |-> ny, nz |-> nz,
                      aoi |-> aoi],
                     [fn |-> "calculate_matrix", rays |-> r, reflect |-> reflect,
                      aoi |-> aoi],
                     [fn |-> "update", rays |-> r, jones |-> jones]>>]

\* BaseCoatingPolarized.reflect
PolarizedReflect(self, h, r, nx, ny, nz) == PolarizedSteps(self, h, r, nx, ny, nz, TRUE)

\* a faulty BaseCoatingPolarized.transmit, asking for the reflection matrix
\* (C3 rules it out)
PolarizedTransmitAsReflect(self, h, r, nx, ny, nz) ==
    PolarizedSteps(self, h, r, nx, ny, nz, TRUE)

\* BaseCoatingPolarized.transmit
PolarizedTransmit(self, h, r, nx, ny, nz) == PolarizedSteps(self, h, r, nx, ny, nz, FALSE)

\* self.reflect(...): the method of the object's class
Reflect(self, h, r, nx, ny, nz) ==
    IF IsPolarized(self) THEN PolarizedReflect(self, h, r, nx, ny, nz)
    ELSE SimpleReflect(self, h, r, nx, ny, nz)

\* self.transmit(...): the method of the object's class
Transmit(self, h, r, nx, ny, nz) ==
    IF IsPolarized(self) THEN PolarizedTransmit(self, h, r, nx, ny, nz)
    ELSE SimpleTransmit(self, h, r, nx, ny, nz)

\* the values of interact's reflect argument; "omitted" takes the default, False
ReflectArgs == {"True", "False", "omitted"}

\* a faulty BaseCoating.interact, reflecting when reflect is omitted (C1 rules
\* it out)
InteractReflectsByDefault(self, h, r, reflect, nx, ny, nz) ==
    LET flag == reflect # "False"
        res == IF flag THEN Reflect(self, h, r, nx, ny, nz)
               ELSE Transmit(self, h, r, nx, ny, nz)
        call == [fn |-> IF flag THEN "reflect" ELSE "transmit",
                 rays |-> r, nx |-> nx, ny |-> ny, nz |-> nz]
    IN  [res EXCEPT !.trace = <<call>> \o @]

\* BaseCoating.interact
Interact(self, h, r, reflect, nx, ny, nz) ==
    LET flag == reflect = "True"
        res == IF flag THEN Reflect(self, h, r, nx, ny, nz)
               ELSE Transmit(self, h, r, nx, ny, nz)
        call == [fn |-> IF flag THEN "reflect" ELSE "transmit",
                 rays |-> r, nx |-> nx, ny |-> ny, nz |-> nz]
    IN  [res EXCEPT !.trace = <<call>> \o @]

(***************************************************************************)
(* Serialization.  A dictionary is a function from its keys.               *)
(***************************************************************************)
\* SimpleCoating.to_dict
SimpleToDict(self) ==
    [type |-> self.type,
     transmittance |-> self.transmittance,
     reflectance |-> self.reflectance]

\* FresnelCoating.to_dict
FresnelToDict(self) ==
    [type |-> self.type,
     material_pre |-> MaterialToDict(self.material_pre),
     material_post |-> MaterialToDict(self.material_post)]

\* self.to_dict(): the method of the object's class
ToDict(self) == IF IsPolarized(self) THEN FresnelToDict(self) ELSE SimpleToDict(self)

Raise(exc) == [obj |-> NoneObj, raised |-> exc, trace |-> <<>>]

Return(obj) ==
    [obj |-> obj, raised |-> "none", trace |-> <<[fn |-> "__init__", cls |-> obj.type]>>]

\* a faulty SimpleCoating.from_dict, passing the two values in the wrong order
\* (C4 rules it out)
SimpleFromDictSwapped(data) ==
    IF ~({"transmittance", "reflectance"} \subseteq DOMAIN data) THEN Raise("KeyError")
    ELSE Return(SimpleCoating(data.reflectance, data.transmittance))

\* SimpleCoating.from_dict
SimpleFromDict(data) ==
    IF ~({"transmittance", "reflectance"} \subseteq DOMAIN data) THEN Raise("KeyError")
    ELSE Return(SimpleCoating(data.transmittance, data.reflectance))

\* BaseCoatingPolarized.from_dict: the class has no constructor taking two
\* arguments, so cls(...) is a type error
PolarizedFromDict(data) ==
    IF ~({"material_pre", "material_post"} \subseteq DOMAIN data) THEN Raise("KeyError")
    ELSE Raise("TypeError")

\* FresnelCoating.from_dict
FresnelFromDict(data) ==
    IF ~({"material_pre", "material_post"} \subseteq DOMAIN data) THEN Raise("KeyError")
    ELSE Return(FresnelCoating(MaterialFromDict(data.material_pre),
                               MaterialFromDict(data.material_post)))

\* cls.from_dict(data) for a registered class
ClassFromDict(cls, data) ==
    CASE cls = "SimpleCoating" -> SimpleFromDict(data)
      [] cls = "FresnelCoating" -> FresnelFromDict(data)
      [] cls = "BaseCoatingPolarized" -> PolarizedFromDict(data)

\* a faulty BaseCoating.from_dict, falling back to a default coating for an
\* unknown type (C5 rules it out)
FromDictWithFallback(reg, data) ==
    IF "type" \notin DOMAIN data THEN Raise("KeyError")
    ELSE IF data.type \notin DOMAIN reg THEN Return(SimpleCoating(Unit, 0))
    ELSE ClassFromDict(reg[data.type], data)

\* BaseCoating.from_dict
FromDict(reg, data) ==
    IF "type" \notin DOMAIN data THEN Raise("KeyError")
    ELSE IF data.type \notin DOMAIN reg THEN Raise("KeyError")
    ELSE ClassFromDict(reg[data.type], data)

\* the names of the coating classes of the module
ClassNames == {"BaseCoating"} \cup {Subclasses[k] : k \in DOMAIN Subclasses}

\* dictionaries no to_dict produced
ForeignDicts ==
    {[type |-> "ThinFilmCoating", transmittance |-> 90, reflectance |-> 5],
     [type |-> "simplecoating", transmittance |-> 90, reflectance |-> 5],
     [type |-> "", material_pre |-> MaterialToDict("air"),
      material_post |-> MaterialToDict("glass")],
     [type |-> "BaseCoating"],
     [type |-> "BaseCoatingPolarized"],
     [type |-> "BaseCoatingPolarized", material_pre |-> MaterialToDict("air"),
      material_post |-> MaterialToDict("glass")],
     [type |-> "SimpleCoating", transmittance |-> 90],
     [transmittance |-> 90, reflectance |-> 5]}

Dicts == {ToDict(c) : c \in Coatings} \cup ForeignDicts

(***************************************************************************)
(* The state machine of the coatings: one coating, two ray collections,    *)
(* and a record of the last operation, last, with the heap before it.      *)
(***************************************************************************)
NoOp ==
    [op |-> "none", rays |-> 0, reflect |-> "n/a", nx |-> None, ny |-> None,
     nz |-> None, trace |-> <<>>, ret |-> 0, raised |-> "none", data |-> NoneObj,
     obj |-> NoneObj, pre |-> <<>>, reg |-> ImportedRegistry]


(***************************************************************************)
(* GaussianQuadrature (optiland.distribution), as the tests pin it down.   *)
(* Radii are multiples of 1/RadiusUnit, cosines and sines multiples of     *)
(* 1/10000, so a coordinate is a multiple of 1/(10000 * RadiusUnit);       *)
(* the weight table is in millionths.                                      *)
(***************************************************************************)
\* 1.0 in the resolution of the ring radii
RadiusUnit == 100000

\* the smallest and the largest num_rings a caller passes
MinRingsArg == 0 - 2

MaxRingsArg == 8

RingsArgs == MinRingsArg .. MaxRingsArg

\* the ring radii for num_rings = 1 .. 6
GQRadiusTable ==
    <<(<<70711>>),
      (<<45970, 88807>>),
      (<<33571, 70711, 94196>>),
      (<<26350, 57446, 81853, 96466>>),
      (<<21659, 48038, 70711, 87706, 97626>>),
      (<<18375, 41158, 61700, 78696, 91138, 98300>>)>>

\* the per-ring weights for num_rings = 1 .. 6, before scaling
GQWeightTable ==
    <<(<<500000>>),
      (<<250000, 250000>>),
      (<<138890, 222220, 138890>>),
      (<<86960, 163040, 163040, 86960>>),
      (<<59231, 119660, 142220, 119660, 59231>>),
      (<<42830, 90190, 116980, 116980, 90190, 42830>>)>>

\* a faulty factor, 6.0 in both modes (C9 rules it out)
GQWeightScaleAlwaysSix(is_symmetric) == 6

\* the factor on the weight table: 6.0 when symmetric, 2.0 when not
GQWeightScale(is_symmetric) == IF is_symmetric THEN 6 ELSE 2

\* faulty azimuths, in decreasing order (C7 rules them out)
GQThetaDescending(is_symmetric) == IF is_symmetric THEN <<0>> ELSE <<60, 0, 0 - 60>>

\* the azimuths of a ring, in degrees
GQTheta(is_symmetric) == IF is_symmetric THEN <<0>> ELSE <<0 - 60, 0, 60>>

\* be.cos and be.sin at the azimuths used, in 1/10000
Cos(deg) == IF deg = 0 THEN 10000 ELSE 5000

Sin(deg) == IF deg = 0 THEN 0 ELSE IF deg > 0 THEN 8660 ELSE 0 - 8660

\* be.outer(a, b).flatten(): row by row
OuterFlat(a, b) ==
    [n \in 1 .. Len(a) * Len(b) |->
        a[((n - 1) \div Len(b)) + 1] * b[((n - 1) % Len(b)) + 1]]

\* the x and y of generate_points(num_rings) for a supported num_rings
GQPoints(is_symmetric, num_rings) ==
    LET radius == GQRadiusTable[num_rings]
        theta == GQTheta(is_symmetric)
    IN  [x |-> OuterFlat(radius, [j \in DOMAIN theta |-> Cos(theta[j])]),
         y |-> OuterFlat(radius, [j \in DOMAIN theta |-> Sin(theta[j])])]

\* faulty weights, one per point instead of one per ring (C8, amended, rules
\* them out)
GQWeightsPerPoint(is_symmetric, num_rings) ==
    LET m == Len(GQTheta(is_symmetric))
    IN  [n \in 1 .. num_rings * m |->
            GQWeightTable[num_rings][((n - 1) \div m) + 1] * GQWeightScale(is_symmetric)]

\* the weights of get_weights(num_rings) for a supported num_rings
GQWeights(is_symmetric, num_rings) ==
    [i \in 1 .. num_rings |-> GQWeightTable[num_rings][i] * GQWeightScale(is_symmetric)]

\* GaussianQuadrature.__init__
\* (rings is not a field of the object: it remembers the num_rings of the
\* points held, 0 when none were generated)
GaussianQuadrature(is_symmetric) ==
    [is_symmetric |-> is_symmetric, x |-> <<>>, y |-> <<>>, rings |-> 0]

\* a faulty generate_points, rejecting only num_rings above the table (C6 rules
\* it out)
GQGeneratePointsNoLowerBound(self, num_rings) ==
    IF num_rings > Len(GQRadiusTable) THEN [self |-> self, raised |-> "ValueError"]
    ELSE IF num_rings < 1 THEN [self |-> [self EXCEPT !.x = <<>>, !.y = <<>>, !.rings = 0],
                                raised |-> "none"]
    ELSE LET pts == GQPoints(self.is_symmetric, num_rings)
         IN  [self |-> [self EXCEPT !.x = pts.x, !.y = pts.y, !.rings = num_rings],
              raised |-> "none"]

\* GaussianQuadrature.generate_points: the instance after the call, and the error
GQGeneratePoints(self, num_rings) ==
    IF num_rings \notin DOMAIN GQRadiusTable THEN [self |-> self, raised |-> "ValueError"]
    ELSE LET pts == GQPoints(self.is_symmetric, num_rings)
         IN  [self |-> [self EXCEPT !.x = pts.x, !.y = pts.y, !.rings = num_rings],
              raised |-> "none"]

\* GaussianQuadrature.get_weights: the weights returned, and the error
GQGetWeights(self, num_rings) ==
    IF num_rings \notin DOMAIN GQWeightTable THEN [ret |-> <<>>, raised |-> "ValueError"]
    ELSE [ret |-> GQWeights(self.is_symmetric, num_rings), raised |-> "none"]

(***************************************************************************)
(* Hexapolar (optiland.distribution), as test_hexapolar constructs it.     *)
(* A point is kept in polar form: its radius r as a fraction <<n, d>> and  *)
(* its azimuth theta as a fraction <<n, d>> of a full turn, so that        *)
(* x = r cos(theta) and y = r sin(theta).                                  *)
(***************************************************************************)
\* the largest num_rings a caller passes
MaxHexRings == 4

\* be.linspace(0, 1, num) as fractions of the span, for num >= 2
Linspace(num) == [j \in 1 .. num |-> <<j - 1, num - 1>>]

\* a[:-1]
DropLast(a) == SubSeq(a, 1, Len(a) - 1)

\* faulty azimuths, keeping the sample at a full turn (C10 rules them out)
HexThetaKeepsLast(num_theta) == Linspace(num_theta + 1)

\* be.linspace(0, 2 * be.pi, num_theta + 1)[:-1], in turns
HexTheta(num_theta) == DropLast(Linspace(num_theta + 1))

\* the points of ring i (counted from 0) of num_rings
HexRing(i, num_rings) ==
    LET r == Linspace(num_rings + 1)
        theta == HexTheta(6 * (i + 1))
    IN  [j \in DOMAIN theta |-> [r |-> r[i + 2], theta |-> theta[j]]]

\* x = be.zeros(1), y = be.zeros(1)
HexOrigin == [r |-> <<0, 1>>, theta |-> <<0, 1>>]

\* the origin followed by rings 0 .. n - 1
RECURSIVE HexConcat(_, _)
HexConcat(n, num_rings) ==
    IF n = 0 THEN <<HexOrigin>>
    ELSE HexConcat(n - 1, num_rings) \o HexRing(n - 1, num_rings)

\* Hexapolar.generate_points
HexGeneratePoints(num_rings) == HexConcat(num_rings, num_rings)

(***************************************************************************)
(* Cross (optiland.distribution), as test_cross constructs it.  A          *)
(* coordinate is a fraction <<n, d>>.                                      *)
(***************************************************************************)
\* the largest num_points a caller passes
MaxCrossPoints == 6

\* be.linspace(-1, 1, num): -1 + 2j/(num - 1) for j = 0 .. num - 1, and the
\* start alone when num = 1
LinspaceSym(num) ==
    IF num = 1 THEN <<(<<0 - 1, 1>>)>>
    ELSE [j \in 1 .. num |-> <<2 * (j - 1) - (num - 1), num - 1>>]

\* be.zeros(num)
Zeros(num) == [j \in 1 .. num |-> <<0, 1>>]

\* be.concatenate((a[:mid_idx], a[mid_idx + 1:]))
WithoutIndex(a, mid_idx) == SubSeq(a, 1, mid_idx) \o SubSeq(a, mid_idx + 2, Len(a))

\* CrossDistribution.generate_points: the y-axis line, then the x-axis line,
\* without its middle sample when num_points is odd
CrossGeneratePoints(num_points) ==
    LET y_line_x == Zeros(num_points)
        y_line_y == LinspaceSym(num_points)
        x_line_x == LinspaceSym(num_points)
        x_line_y == Zeros(num_points)
        odd == num_points % 2 = 1
        mid_idx == num_points \div 2
    IN  [x |-> y_line_x \o (IF odd THEN WithoutIndex(x_line_x, mid_idx) ELSE x_line_x),
         y |-> y_line_y \o (IF odd THEN WithoutIndex(x_line_y, mid_idx) ELSE x_line_y)]

(***************************************************************************)
(* The state machines.  Spec runs the coating operations on one coating    *)
(* and two ray collections; SpecDist runs the distribution operations.     *)
(* last and dlast record the last operation with the state before it.      *)
(***************************************************************************)
\* (num_rings holds the argument of the call: num_rings or num_points)
NoDistOp ==
    [op |-> "none", num_rings |-> 0, raised |-> "none", ret |-> <<>>,
     prex |-> <<>>, prey |-> <<>>]

InitCoatings ==
    /\ heap = [r \in RayIds |-> RealRays(InitialIntensity[r])]
    /\ registry = ImportedRegistry
    /\ last = NoOp
    /\ nops = 0
    /\ hist = [r \in RayIds |-> <<>>]

InitDistributions ==
    /\ hexa = <<>>
    /\ cross = [x |-> <<>>, y |-> <<>>]
    /\ dlast = NoDistOp

Init ==
    /\ coating \in Coatings
    /\ InitCoatings
    /\ gq = GaussianQuadrature(FALSE)
    /\ InitDistributions

InitDist ==
    /\ coating = SimpleCoating(90, 5)
    /\ InitCoatings
    /\ gq \in {GaussianQuadrature(s) : s \in BOOLEAN}
    /\ InitDistributions

RayOp(op, r, reflect, n, res) ==
    /\ coating' = res.self
    /\ heap' = res.heap
    /\ last' = [NoOp EXCEPT !.op = op, !.rays = r, !.reflect = reflect, !.nx = n.nx,
                            !.ny = n.ny, !.nz = n.nz, !.trace = res.trace,
                            !.ret = res.ret, !.pre = heap, !.reg = registry]
    /\ nops' = nops + 1
    /\ hist' = [hist EXCEPT ![r] = Append(@, IF op = "interact" THEN res.trace[1].fn ELSE op)]
    /\ UNCHANGED registry
    /\ UNCHANGED distVars

\* coating.interact(rays, reflect, nx, ny, nz)
DoInteract ==
    /\ nops < MaxOps
    /\ \E r \in RayIds, reflect \in ReflectArgs, n \in NormalArgs(coating) :
          RayOp("interact", r, reflect, n,
                Interact(coating, heap, r, reflect, n.nx, n.ny, n.nz))

\* coating.reflect(rays, nx, ny, nz)
DoReflect ==
    /\ nops < MaxOps
    /\ \E r \in RayIds, n \in NormalArgs(coating) :
          RayOp("reflect", r, "n/a", n, Reflect(coating, heap, r, n.nx, n.ny, n.nz))

\* coating.transmit(rays, nx, ny, nz)
DoTransmit ==
    /\ nops < MaxOps
    /\ \E r \in RayIds, n \in NormalArgs(coating) :
          RayOp("transmit", r, "n/a", n, Transmit(coating, heap, r, n.nx, n.ny, n.nz))

\* coating.to_dict()
DoToDict ==
    /\ last' = [NoOp EXCEPT !.op = "to_dict", !.obj = ToDict(coating), !.pre = heap,
                            !.reg = registry]
    /\ UNCHANGED <<coating, heap, registry, nops, hist>>
    /\ UNCHANGED distVars

\* BaseCoating.from_dict(data)
DoFromDict ==
    \E data \in Dicts :
        LET res == FromDict(registry, data)
        IN  /\ last' = [NoOp EXCEPT !.op = "from_dict", !.data = data, !.obj = res.obj,
                                    !.raised = res.raised, !.trace = res.trace,
                                    !.pre = heap, !.reg = registry]
            /\ UNCHANGED <<coating, heap, registry, nops, hist>>
            /\ UNCHANGED distVars

Next == DoInteract \/ DoReflect \/ DoTransmit \/ DoToDict \/ DoFromDict

Spec == Init /\ [][Next]_vars

\* d = distribution.GaussianQuadrature(is_symmetric)
DoGQConstruct ==
    \E s \in BOOLEAN :
        /\ gq' = GaussianQuadrature(s)
        /\ dlast' = [NoDistOp EXCEPT !.op = "gq_init", !.prex = gq.x, !.prey = gq.y]
        /\ UNCHANGED <<hexa, cross>>
        /\ UNCHANGED coatingVars

\* d.generate_points(num_rings) on the GaussianQuadrature instance
DoGQGeneratePoints ==
    \E k \in RingsArgs :
        LET res == GQGeneratePoints(gq, k)
        IN  /\ gq' = res.self
            /\ dlast' = [NoDistOp EXCEPT !.op = "gq_generate_points", !.num_rings = k,
                                         !.raised = res.raised, !.prex = gq.x,
                                         !.prey = gq.y]
            /\ UNCHANGED <<hexa, cross>>
            /\ UNCHANGED coatingVars

\* d.get_weights(num_rings) on the GaussianQuadrature instance
DoGQGetWeights ==
    \E k \in RingsArgs :
        LET res == GQGetWeights(gq, k)
        IN  /\ dlast' = [NoDistOp EXCEPT !.op = "gq_get_weights", !.num_rings = k,
                                         !.raised = res.raised, !.ret = res.ret,
                                         !.prex = gq.x, !.prey = gq.y]
            /\ UNCHANGED <<gq, hexa, cross>>
            /\ UNCHANGED coatingVars

\* d.generate_points(num_rings) on the Hexapolar instance
DoHexGeneratePoints ==
    \E k \in 1 .. MaxHexRings :
        /\ hexa' = HexGeneratePoints(k)
        /\ dlast' = [NoDistOp EXCEPT !.op = "hex_generate_points", !.num_rings = k,
                                     !.prex = gq.x, !.prey = gq.y]
        /\ UNCHANGED <<gq, cross>>
        /\ UNCHANGED coatingVars

\* d.generate_points(num_points) on the Cross instance
DoCrossGeneratePoints ==
    \E n \in 0 .. MaxCrossPoints :
        /\ cross' = CrossGeneratePoints(n)
        /\ dlast' = [NoDistOp EXCEPT !.op = "cross_generate_points", !.num_rings = n,
                                     !.prex = gq.x, !.prey = gq.y]
        /\ UNCHANGED <<gq, hexa>>
        /\ UNCHANGED coatingVars

NextDist ==
    \/ DoGQConstruct
    \/ DoGQGeneratePoints
    \/ DoGQGetWeights
    \/ DoHexGeneratePoints
    \/ DoCrossGeneratePoints

SpecDist == InitDist /\ [][NextDist]_vars

(***************************************************************************)
(* Properties of the coatings, checked under Spec.                         *)
(***************************************************************************)
\* the calls to reflect and transmit among the calls of the last operation
DispatchCalls == SelectSeq(last.trace, LAMBDA c : c.fn \in {"reflect", "transmit"})

\* the calls the last operation made below reflect or transmit
InnerCalls == SelectSeq(last.trace, LAMBDA c : c.fn \notin {"reflect", "transmit"})

\* the last operation reflected (as opposed to transmitted)
LastReflected ==
    \/ last.op = "reflect"
    \/ last.op = "interact" /\ last.reflect = "True"

\* C1: interact makes exactly one call, to reflect when its reflect argument is
\* true and to transmit when it is false or omitted, with the rays and normals
\* it was given, and returns the very ray collection it was given.
C1_InteractDispatchesOnce ==
    last.op = "interact" =>
        /\ Len(DispatchCalls) = 1
        /\ DispatchCalls[1] =
              [fn |-> IF last.reflect = "True" THEN "reflect" ELSE "transmit",
               rays |-> last.rays, nx |-> last.nx, ny |-> last.ny, nz |-> last.nz]
        /\ last.ret = last.rays

C1_Witness ==
    /\ last.op = "interact"
    /\ last.reflect = "omitted"
    /\ IsPolarized(coating)
    /\ last.rays = 2
    /\ DispatchCalls[1].fn = "transmit"

\* C2: on a SimpleCoating, reflect replaces every ray's intensity i by
\* i * reflectance and transmit by i * transmittance, whatever the normals
\* (given or omitted), and changes nothing else of any ray collection.
C2_SimpleCoatingScalesIntensity ==
    (~IsPolarized(coating) /\ last.op \in {"reflect", "transmit"}) =>
        LET factor == IF last.op = "reflect" THEN coating.reflectance
                      ELSE coating.transmittance
            before == last.pre[last.rays]
            after == heap[last.rays]
        IN  /\ DOMAIN after.i = DOMAIN before.i
            /\ \A k \in DOMAIN before.i : after.i[k] = FMul(before.i[k], factor)
            /\ after = [before EXCEPT !.i = after.i]
            /\ \A q \in RayIds \ {last.rays} : heap[q] = last.pre[q]

C2_Witness ==
    /\ coating = SimpleCoating(90, 5)
    /\ last.op = "reflect"
    /\ last.rays = 1
    /\ last.nx = None
    /\ last.pre[1].i = <<Unit, 40>>
    /\ heap[1].i = <<5, 2>>

\* C3: on a polarized coating every reflect or transmit computes the angle of
\* incidence, then requests one Jones matrix with the reflect flag of the
\* interaction and that angle, then calls rays.update once with that matrix;
\* after n interactions update was called n times.
C3_PolarizedAoiJonesUpdate ==
    (IsPolarized(coating) /\ last.op \in {"reflect", "transmit", "interact"}) =>
        LET r == last.rays
            aoi == ComputeAoi(last.pre, r, last.nx, last.ny, last.nz)
            jones == CalculateMatrix(coating.jones, r, LastReflected, aoi)
        IN  /\ Len(InnerCalls) = 3
            /\ InnerCalls[1] = [fn |-> "_compute_aoi", rays |-> r, nx |-> last.nx,
                                ny |-> last.ny, nz |-> last.nz, aoi |-> aoi]
            /\ InnerCalls[2] = [fn |-> "calculate_matrix", rays |-> r,
                                reflect |-> LastReflected, aoi |-> aoi]
            /\ InnerCalls[3] = [fn |-> "update", rays |-> r, jones |-> jones]
            /\ heap[r].p = Append(last.pre[r].p, jones)
            /\ Len(heap[1].p) + Len(heap[2].p) = nops

C3_Witness ==
    /\ IsPolarized(coating)
    /\ last.op = "transmit"
    /\ nops = 3
    /\ Len(heap[1].p) = 2
    /\ Len(heap[2].p) = 1
    /\ InnerCalls[2].reflect = FALSE

\* C4: for every SimpleCoating c, BaseCoating.from_dict(c.to_dict()) is a
\* SimpleCoating with c's transmittance, reflectance and absorptance, and its
\* to_dict equals c's.
C4_SimpleCoatingRoundTrip ==
    \A c \in SimpleCoatings :
        (last.op = "from_dict" /\ last.data = ToDict(c)) =>
            /\ last.raised = "none"
            /\ last.obj.type = "SimpleCoating"
            /\ DOMAIN last.obj = DOMAIN c
            /\ last.obj.transmittance = c.transmittance
            /\ last.obj.reflectance = c.reflectance
            /\ last.obj.absorptance = c.absorptance
            /\ ToDict(last.obj) = ToDict(c)

C4_Witness ==
    /\ last.op = "from_dict"
    /\ last.data = [type |-> "SimpleCoating", transmittance |-> 90, reflectance |-> 5]
    /\ last.obj = SimpleCoating(90, 5)
    /\ last.obj.absorptance = Unit - 95

\* C5: from_dict of a dictionary whose "type" names no coating class raises
\* KeyError, constructs nothing, returns nothing and leaves the registry as
\* it was.
C5_UnknownTypeRaisesKeyError ==
    (last.op = "from_dict" /\ "type" \in DOMAIN last.data
        /\ last.data.type \notin ClassNames) =>
        /\ last.raised = "KeyError"
        /\ last.trace = <<>>
        /\ last.obj = NoneObj
        /\ registry = last.reg

C5_Witness ==
    /\ last.op = "from_dict"
    /\ "type" \in DOMAIN last.data
    /\ last.data.type = "ThinFilmCoating"
    /\ last.raised = "KeyError"
    /\ last.obj = NoneObj

(***************************************************************************)
(* Properties of the distributions, checked under SpecDist.                *)
(***************************************************************************)
\* the number of points a ring contributes
PointsPerRing == IF gq.is_symmetric THEN 1 ELSE 3

\* C6: generate_points and get_weights of GaussianQuadrature raise ValueError
\* for every num_rings outside 1..6, in both modes, and leave x and y as they
\* were.
C6_InvalidRingsRaise ==
    (dlast.op \in {"gq_generate_points", "gq_get_weights"}
        /\ dlast.num_rings \notin 1 .. 6) =>
        /\ dlast.raised = "ValueError"
        /\ dlast.ret = <<>>
        /\ gq.x = dlast.prex
        /\ gq.y = dlast.prey

C6_Witness ==
    /\ dlast.op = "gq_generate_points"
    /\ dlast.num_rings = 0
    /\ dlast.raised = "ValueError"
    /\ ~gq.is_symmetric
    /\ Len(gq.x) = 9

\* C7: generate_points(k), k in 1..6, yields k points (radius_i, 0) in
\* symmetric mode and 3k points in asymmetric mode, three per ring at -60, 0
\* and +60 degrees in that order; rings come in increasing index and the
\* radii are strictly increasing, strictly between 0 and 1.
C7_GQPointLayout ==
    \A k \in 1 .. 6 :
        (dlast.op = "gq_generate_points" /\ dlast.num_rings = k) =>
            LET radius == GQRadiusTable[k]
                x == gq.x
                y == gq.y
            IN  /\ Len(x) = PointsPerRing * k
                /\ Len(y) = PointsPerRing * k
                /\ Len(radius) = k
                /\ gq.is_symmetric =>
                      \A i \in 1 .. k : x[i] = radius[i] * 10000 /\ y[i] = 0
                /\ ~gq.is_symmetric =>
                      \A i \in 1 .. k :
                          LET a == 3 * (i - 1)
                          IN  /\ y[a + 1] < 0 /\ y[a + 2] = 0 /\ y[a + 3] > 0
                              /\ x[a + 1] = x[a + 3]
                              /\ y[a + 1] = 0 - y[a + 3]
                              /\ x[a + 2] = radius[i] * 10000
                              /\ 2 * x[a + 1] = x[a + 2]
                              /\ y[a + 3] = radius[i] * 8660
                /\ \A i \in 1 .. k : 0 < radius[i] /\ radius[i] < RadiusUnit
                /\ \A i \in 1 .. k - 1 : radius[i] < radius[i + 1]

C7_Witness ==
    /\ dlast.op = "gq_generate_points"
    /\ dlast.num_rings = 2
    /\ ~gq.is_symmetric
    /\ gq.x = <<229850000, 459700000, 229850000, 444035000, 888070000, 444035000>>
    /\ gq.y[1] < 0

\* the last operation was get_weights(k) on an instance holding the points of
\* generate_points(k)
WeightsOfPointsHeld ==
    /\ dlast.op = "gq_get_weights"
    /\ dlast.raised = "none"
    /\ gq.rings = dlast.num_rings

\* C8, as stated: get_weights(k) has the length of the point sequence of
\* generate_points(k) on the same instance, in both modes.
C8_AsStated == WeightsOfPointsHeld => Len(dlast.ret) = Len(gq.x)

\* C8, amended: get_weights(k) returns one weight per ring, k weights, in both
\* modes; in symmetric mode that is one per point, in asymmetric mode weight i
\* belongs to the three points of ring i, and the points are 3k.
C8_OneWeightPerRing ==
    WeightsOfPointsHeld =>
        /\ Len(dlast.ret) = dlast.num_rings
        /\ Len(gq.x) = PointsPerRing * Len(dlast.ret)
        /\ Len(gq.y) = Len(gq.x)

C8_Witness ==
    /\ WeightsOfPointsHeld
    /\ ~gq.is_symmetric
    /\ dlast.num_rings = 2
    /\ Len(dlast.ret) = 2
    /\ Len(gq.x) = 6

\* C9: the weights of get_weights(k), divided by 6 in symmetric mode and by 2
\* in asymmetric mode, are the table row for k; so a ring's symmetric weight
\* is 3 times its asymmetric weight, and each row reads the same reversed.
C9_WeightsMatchTable ==
    \A k \in 1 .. 6 :
        (dlast.op = "gq_get_weights" /\ dlast.num_rings = k) =>
            LET w == dlast.ret
                div == IF gq.is_symmetric THEN 6 ELSE 2
                row == GQWeightTable[k]
            IN  /\ dlast.raised = "none"
                /\ Len(w) = Len(row)
                /\ \A i \in DOMAIN w : w[i] % div = 0 /\ w[i] \div div = row[i]
                /\ \A i \in DOMAIN w : w[i] * (IF gq.is_symmetric THEN 1 ELSE 3) = 6 * row[i]
                /\ \A i \in DOMAIN w : w[i] = w[Len(w) + 1 - i]
                /\ k = 1 => [i \in DOMAIN w |-> w[i] \div div] = <<500000>>
                /\ k = 2 => [i \in DOMAIN w |-> w[i] \div div] = <<250000, 250000>>
                /\ k = 3 => [i \in DOMAIN w |-> w[i] \div div] = <<138890, 222220, 138890>>

C9_Witness ==
    /\ dlast.op = "gq_get_weights"
    /\ dlast.num_rings = 3
    /\ gq.is_symmetric
    /\ dlast.ret = <<833340, 1333320, 833340>>

\* two azimuths, as fractions of a turn, are the same direction
SameAzimuth(a, b) == (a[1] * b[2] - b[1] * a[2]) % (a[2] * b[2]) = 0

\* C10: Hexapolar generate_points(k), k >= 1, yields 1 + 3k(k+1) points: the
\* origin, then ring by ring 6(i+1) points on ring i at radius (i+1)/k, the
\* first at azimuth 0 and no two points of a ring the same.
C10_HexapolarLayout ==
    \A k \in 1 .. MaxHexRings :
        (dlast.op = "hex_generate_points" /\ dlast.num_rings = k) =>
            /\ Len(hexa) = 1 + 3 * k * (k + 1)
            /\ hexa[1].r[1] = 0 /\ hexa[1].r[2] > 0
            /\ \A i \in 0 .. k - 1 :
                  LET base == 1 + 3 * i * (i + 1)
                      n == 6 * (i + 1)
                  IN  /\ \A j \in 1 .. n :
                            /\ hexa[base + j].r[2] > 0
                            /\ hexa[base + j].r[1] * k = (i + 1) * hexa[base + j].r[2]
                            /\ hexa[base + j].theta[2] > 0
                      /\ hexa[base + 1].theta[1] = 0
                      /\ \A j1 \in 1 .. n : \A j2 \in 1 .. n :
                            j1 < j2 => ~SameAzimuth(hexa[base + j1].theta,
                                                    hexa[base + j2].theta)

C10_Witness ==
    /\ dlast.op = "hex_generate_points"
    /\ dlast.num_rings = 3
    /\ Len(hexa) = 37
    /\ hexa[20] = [r |-> <<3, 3>>, theta |-> <<0, 18>>]

\* the points of the Cross instance that are the origin
CrossOrigins == {j \in DOMAIN cross.x : cross.x[j][1] = 0 /\ cross.y[j][1] = 0}

\* the fraction f is the j-th sample (from 0) of linspace(-1, 1, n)
IsSample(f, j, n) == f[2] > 0 /\ f[1] * (n - 1) = (2 * j - (n - 1)) * f[2]

\* what C11 says of generate_points(n)
CrossAsClaimed(n) ==
    /\ Len(cross.x) = Len(cross.y)
    /\ Len(cross.x) = IF n % 2 = 1 THEN 2 * n - 1 ELSE 2 * n
    /\ \A j \in 1 .. n : cross.x[j][1] = 0 /\ IsSample(cross.y[j], j - 1, n)
    /\ \A j \in n + 1 .. Len(cross.x) :
          /\ cross.y[j][1] = 0
          /\ IsSample(cross.x[j],
                      IF n % 2 = 1 /\ j - n - 1 >= n \div 2 THEN j - n ELSE j - n - 1, n)
    /\ Cardinality(CrossOrigins) = IF n % 2 = 1 THEN 1 ELSE 0

\* C11: Cross generate_points(N) yields the y-axis line, then the x-axis line:
\* 2N - 1 points when N is odd, the x-axis line's sample N // 2 dropped so that
\* the origin appears exactly once, and 2N points, none the origin, when N is
\* even.
C11_CrossKeepsOneOrigin ==
    \A n \in 0 .. MaxCrossPoints :
        (dlast.op = "cross_generate_points" /\ dlast.num_rings = n) => CrossAsClaimed(n)

\* C11 holds of every N but 1; generate_points(1) leaves the single point
\* (0, -1): the sample dropped from the x-axis line is (-1, 0), not the origin.
C11_ExceptOnePoint ==
    \A n \in 0 .. MaxCrossPoints :
        (dlast.op = "cross_generate_points" /\ dlast.num_rings = n) =>
            IF n = 1 THEN cross = [x |-> <<(<<0, 1>>)>>, y |-> <<(<<0 - 1, 1>>)>>]
            ELSE CrossAsClaimed(n)

C11_Witness ==
    /\ dlast.op = "cross_generate_points"
    /\ dlast.num_rings = 5
    /\ Len(cross.x) = 9
    /\ CrossOrigins = {3}

\* the array arr negated, element by element
Negated(arr) == [k \in DOMAIN arr |-> 0 - arr[k]]

\* the dot product of ray k of collection r, before the last operation, with
\* the normal the last operation was given
RawDot(r, k) ==
    last.nx[k] * last.pre[r].L0[k] + last.ny[k] * last.pre[r].M0[k]
        + last.nz[k] * last.pre[r].N0[k]

\* C12: the value _compute_aoi passes to arccos is min(|dot|, 1), the clip
\* coming after the absolute value and before arccos; the angle is defined for
\* every ray, lies between 0 and 90 degrees, and is the same for a normal and
\* its negation.
C12_AoiOfClippedAbsDot ==
    (IsPolarized(coating) /\ last.op \in {"reflect", "transmit", "interact"}) =>
        /\ Len(InnerCalls) >= 1
        /\ InnerCalls[1].fn = "_compute_aoi"
        /\ DOMAIN InnerCalls[1].aoi = DOMAIN last.pre[last.rays].i
        /\ \A k \in DOMAIN InnerCalls[1].aoi :
              LET d == RawDot(last.rays, k)
                  arg == IF Abs(d) > One THEN One ELSE Abs(d)
                  angle == InnerCalls[1].aoi[k]
              IN  /\ arg \in 0 .. One
                  /\ angle = ArcCosTable[arg + 1]
                  /\ angle # NaN
                  /\ angle \in 0 .. 9000
        /\ InnerCalls[1].aoi =
              ComputeAoi(last.pre, last.rays, Negated(last.nx), Negated(last.ny),
                         Negated(last.nz))

C12_Witness ==
    /\ IsPolarized(coating)
    /\ last.op = "reflect"
    /\ last.rays = 1
    /\ RawDot(1, 1) = 0 - One
    /\ RawDot(1, 2) > One
    /\ Len(InnerCalls) >= 1
    /\ InnerCalls[1].aoi = <<0, 0>>

\* C13: no interact, reflect, transmit, to_dict or from_dict changes the
\* coating (a SimpleCoating's transmittance, reflectance and absorptance, a
\* FresnelCoating's materials and Jones calculator) or the class registry; of
\* the ray collections only the one passed as argument may change.
C13_CoatingAndRegistryImmutable ==
    [][/\ coating' = coating
       /\ registry' = registry
       /\ IF last'.op \in {"reflect", "transmit", "interact"}
          THEN \A q \in RayIds \ {last'.rays} : heap'[q] = heap[q]
          ELSE heap' = heap]_vars

C13_Witness ==
    /\ nops = 3
    /\ last.op = "interact"
    /\ last.reflect = "omitted"
    /\ last.rays = 1
    /\ coating = SimpleCoating(90, 5)
    /\ heap[1].i # last.pre[1].i
    /\ heap[1].i # InitialIntensity[1]
    /\ heap[2].i # InitialIntensity[2]

\* the classes a caller can construct a coating of
ConcreteVariants == {"SimpleCoating", "FresnelCoating"}

\* C14 as stated: the registry's keys are exactly the two concrete variants,
\* from_dict returns a coating only for those, and the names of the abstract
\* bases raise the key error of an unknown discriminator.
C14_AsStated ==
    /\ DOMAIN registry = ConcreteVariants
    /\ (last.op = "from_dict" /\ last.raised = "none") =>
          /\ "type" \in DOMAIN last.data
          /\ last.data.type \in ConcreteVariants
    /\ (last.op = "from_dict" /\ "type" \in DOMAIN last.data
          /\ last.data.type \in {"BaseCoating", "BaseCoatingPolarized"}) =>
          last.raised = "KeyError"

\* C14: from_dict returns a coating only for a concrete variant, and then one
\* of that variant.  The registry's keys are SimpleCoating, FresnelCoating and
\* also BaseCoatingPolarized, each mapped to its class; BaseCoating is no key
\* and raises the key error; BaseCoatingPolarized is dispatched to its own
\* from_dict, which raises the key error when a material field is missing and
\* a type error otherwise, and never returns a coating.
C14_OnlyConcreteVariantsBuilt ==
    /\ DOMAIN registry = ConcreteVariants \cup {"BaseCoatingPolarized"}
    /\ \A n \in DOMAIN registry : registry[n] = n
    /\ last.op = "from_dict" =>
          /\ last.raised = "none" =>
                /\ "type" \in DOMAIN last.data
                /\ last.data.type \in ConcreteVariants
                /\ last.obj.type = last.data.type
          /\ last.raised # "none" => last.obj = NoneObj
          /\ ("type" \in DOMAIN last.data /\ last.data.type = "BaseCoating") =>
                last.raised = "KeyError" /\ last.trace = <<>>
          /\ ("type" \in DOMAIN last.data /\ last.data.type = "BaseCoatingPolarized") =>
                /\ last.raised =
                      IF {"material_pre", "material_post"} \subseteq DOMAIN last.data
                      THEN "TypeError" ELSE "KeyError"
                /\ last.trace = <<>>

C14_Witness ==
    /\ last.op = "from_dict"
    /\ "type" \in DOMAIN last.data
    /\ last.data.type = "BaseCoatingPolarized"
    /\ "material_pre" \in DOMAIN last.data
    /\ last.raised = "TypeError"
    /\ last.obj = NoneObj
    /\ registry["BaseCoatingPolarized"] = "BaseCoatingPolarized"

\* the factor a call multiplies the intensity by
Factor(c, call) == IF call = "reflect" THEN c.reflectance ELSE c.transmittance

\* the intensity i after the calls of the sequence calls, taken in order, each
\* multiplication rounded as the backend rounds it
RECURSIVE Applied(_, _, _)
Applied(c, i, calls) ==
    IF calls = <<>> THEN i ELSE Applied(c, FMul(i, Factor(c, Head(calls))), Tail(calls))

\* the number of reflections in a sequence of calls
Reflections(calls) == Len(SelectSeq(calls, LAMBDA call : call = "reflect"))

\* the sequences with as many reflections and as many transmissions as calls
SameCounts(calls) ==
    {s \in [1 .. Len(calls) -> {"reflect", "transmit"}] :
        Reflections(s) = Reflections(calls)}

====
